---------------------------- MODULE Spec2Model ----------------------------
(***************************************************************************)
(* AdmissionPredictor (src/src/prediction/admission_predictor.py) as a     *)
(* state machine.  The state is the predictor object after construction    *)
(* (its raw admission table and its daily aggregate) together with the     *)
(* value returned, or the exception raised, by the last public call.       *)
(*                                                                         *)
(* Conventions.                                                            *)
(*   - A pandas Timestamp is its day ordinal (days since 1970-01-01); NaT  *)
(*     is the empty tuple <<>>, a valid Timestamp z is <<z>>.              *)
(*   - A raw 'D.O.A' cell is the triple <<day, month, year>> that the      *)
(*     format '%d/%m/%Y' reads from it.                                    *)
(*   - A '%Y-%m-%d' string is the triple <<year, month, day>> it prints.   *)
(*   - A float is an exact rational <<numerator, denominator>>; NaN is     *)
(*     <<>>.  Raw model predictions are held in quarters (raw4 = 4 * x).   *)
(***************************************************************************)
EXTENDS Integers, Sequences, FiniteSets, Bags, TLC

VARIABLES data, daily_admissions, registries, fitted, ret

vars == <<data, daily_admissions, registries, fitted, ret>>

---------------------------------------------------------------------------
(* Bounds of the model *)

\* largest forecast horizon requested from predict_daily_admissions
MaxHorizon == 2
\* largest number of rows with an unparseable 'D.O.A' in an input table
MaxBad == 1
\* number of closing days of a settled table, on which the count stays the same
SettledDays == 30

\* calendar spans (in days) of the input tables
SpanLens == {0, 3, 59, 60, 120}
\* the spans whose tables also come with unparseable rows
ShortSpans == {0, 3}
\* the spans whose tables also come settled
LongSpans == {120}
\* per-day admission counts, repeated cyclically over the span; 0 = no event
Patterns == {<<1, 2>>, <<1, 0>>, <<4, 0, 1, 7, 2>>}
\* first calendar day of every table: 15/11/2019
StartDOA == <<15, 11, 2019>>
\* requested horizons and percentiles
Horizons == (-1) .. MaxHorizon
Percentiles == {0, 75, 90, 100, 101}

---------------------------------------------------------------------------
(* Dates *)

IsLeap(y) == (y % 4 = 0 /\ y % 100 # 0) \/ y % 400 = 0

DaysInMonth(y, m) ==
    IF m = 2 THEN (IF IsLeap(y) THEN 29 ELSE 28)
    ELSE IF m \in {4, 6, 9, 11} THEN 30 ELSE 31

\* day ordinal of the civil date y-m-d (proleptic Gregorian, 1970-01-01 = 0)
DaysFromCivil(y, m, d) ==
    LET yy  == IF m <= 2 THEN y - 1 ELSE y
        era == yy \div 400
        yoe == yy - era * 400
        mp  == IF m > 2 THEN m - 3 ELSE m + 9
        doy == (153 * mp + 2) \div 5 + d - 1
        doe == yoe * 365 + yoe \div 4 - yoe \div 100 + doy
    IN  era * 146097 + doe - 719468

\* <<year, month, day>> of a day ordinal
CivilFromDays(z) ==
    LET zz  == z + 719468
        era == zz \div 146097
        doe == zz - era * 146097
        yoe == (doe - doe \div 1460 + doe \div 36524 - doe \div 146096) \div 365
        doy == doe - (365 * yoe + yoe \div 4 - yoe \div 100)
        mp  == (5 * doy + 2) \div 153
        d   == doy - (153 * mp + 2) \div 5 + 1
        m   == IF mp < 10 THEN mp + 3 ELSE mp - 9
        y   == yoe + era * 400 + (IF m <= 2 THEN 1 ELSE 0)
    IN  <<y, m, d>>

\* pd.to_datetime(cell, format='%d/%m/%Y', errors='coerce')
ToDatetime(cell) ==
    LET d == cell[1]
        m == cell[2]
        y == cell[3]
    IN  IF y \in 1970 .. 2200 /\ m \in 1 .. 12 /\ d >= 1 /\ d <= DaysInMonth(y, m)
        THEN <<DaysFromCivil(y, m, d)>>
        ELSE <<>>

\* date.strftime('%Y-%m-%d')
Strftime(z) == CivilFromDays(z)

\* Timestamp.month, .weekday() (Monday = 0), .dayofyear
MonthOf(z) == CivilFromDays(z)[2]
Weekday(z) == (z + 3) % 7
DayOfYear(z) == z - DaysFromCivil(CivilFromDays(z)[1], 1, 1) + 1

\* number of ISO weeks of year y
WeeksInYear(y) ==
    LET jan1 == Weekday(DaysFromCivil(y, 1, 1))
    IN  IF jan1 = 3 \/ (jan1 = 2 /\ IsLeap(y)) THEN 53 ELSE 52

\* date.isocalendar()[1]
WeekOfYear(z) ==
    LET y == CivilFromDays(z)[1]
        w == (DayOfYear(z) - (Weekday(z) + 1) + 10) \div 7
    IN  IF w < 1 THEN WeeksInYear(y - 1)
        ELSE IF w > WeeksInYear(y) THEN 1
        ELSE w

\* _get_season: 0 = Winter, 1 = Spring, 2 = Summer, 3 = Fall
GetSeason(month) ==
    IF month \in {12, 1, 2} THEN 0
    ELSE IF month \in {3, 4, 5} THEN 1
    ELSE IF month \in {6, 7, 8} THEN 2
    ELSE 3

---------------------------------------------------------------------------
(* Input tables: the 'D.O.A' column as a bag of cells *)

\* a cell no date can be read from
BadCell == <<31, 2, 2019>>

\* the cell that prints day ordinal z as '%d/%m/%Y'
CellOf(z) == LET c == CivilFromDays(z) IN <<c[3], c[2], c[1]>>

\* the table with pat[i mod Len(pat)] events on the i-th day of a span of n days
\* and bad unparseable rows; a settled table has pat[1] events on each of its
\* last SettledDays days
Table(n, pat, bad, settled) ==
    LET z0   == DaysFromCivil(StartDOA[3], StartDOA[2], StartDOA[1])
        cnt(i) == IF settled /\ i >= n - SettledDays THEN pat[1]
                  ELSE pat[(i % Len(pat)) + 1]
        days == {i \in 0 .. (n - 1) : cnt(i) > 0}
        good == [c \in {CellOf(z0 + i) : i \in days} |->
                    cnt(ToDatetime(c)[1] - z0)]
    IN  IF bad > 0 THEN good (+) [c \in {BadCell} |-> bad] ELSE good

Tables ==
    {Table(n, pat, 0, FALSE) : n \in SpanLens, pat \in Patterns}
    \cup {Table(n, pat, bad, FALSE) :
              n \in ShortSpans, pat \in Patterns, bad \in 1 .. MaxBad}
    \cup {Table(n, pat, 0, TRUE) : n \in LongSpans, pat \in Patterns}

---------------------------------------------------------------------------
(* _prepare_data: the daily aggregate *)

\* the parsed admission dates of a table (NaT is no group key)
ParsedDates(tbl) ==
    {ToDatetime(c)[1] : c \in {x \in BagToSet(tbl) : ToDatetime(x) # <<>>}}

SetMin(S) == CHOOSE x \in S : \A y \in S : x <= y
SetMax(S) == CHOOSE x \in S : \A y \in S : x >= y

\* number of rows of the table whose admission_date is z
\* the number of distinct cells of the date, not of rows
GroupSize_Distinct(tbl, z) ==
    Cardinality({x \in BagToSet(tbl) : ToDatetime(x) = <<z>>})

GroupSize(tbl, z) ==
    BagCardinality([c \in {x \in BagToSet(tbl) : ToDatetime(x) = <<z>>} |-> tbl[c]])

\* one candidate row per calendar day from lo to hi
DayRows(tbl, lo, hi) ==
    [i \in 1 .. (hi - lo + 1) |->
        [admission_date |-> lo + i - 1,
         admission_count |-> GroupSize(tbl, lo + i - 1)]]

\* data.groupby('admission_date').size().reset_index(name='admission_count'):
\* one row per date that is the admission_date of some row of the table, in
\* ascending date order; a day of no row is no group
GroupByDate(tbl) ==
    IF ParsedDates(tbl) = {} THEN <<>>
    ELSE SelectSeq(DayRows(tbl, SetMin(ParsedDates(tbl)), SetMax(ParsedDates(tbl))),
                   LAMBDA row : row.admission_count > 0)

PrepareData(tbl) == GroupByDate(tbl)


---------------------------------------------------------------------------
(* _add_temporal_features: calendar, lag and rolling columns *)

Lags == <<1, 3, 7, 14, 30>>
Windows == <<3, 7, 14, 30>>

SeqRange(s) == {s[i] : i \in 1 .. Len(s)}


Max2(a, b) == IF a > b THEN a ELSE b
Min2(a, b) == IF a < b THEN a ELSE b

\* xs[lo] + ... + xs[hi]
RECURSIVE SumRange(_, _, _)
SumRange(xs, lo, hi) ==
    IF lo > hi THEN 0
    ELSE IF lo = hi THEN xs[lo]
    ELSE SumRange(xs, lo, (lo + hi) \div 2) + SumRange(xs, (lo + hi) \div 2 + 1, hi)

RECURSIVE MaxRange(_, _, _)
MaxRange(xs, lo, hi) ==
    IF lo = hi THEN xs[lo]
    ELSE Max2(MaxRange(xs, lo, (lo + hi) \div 2), MaxRange(xs, (lo + hi) \div 2 + 1, hi))

RECURSIVE MinRange(_, _, _)
MinRange(xs, lo, hi) ==
    IF lo = hi THEN xs[lo]
    ELSE Min2(MinRange(xs, lo, (lo + hi) \div 2), MinRange(xs, (lo + hi) \div 2 + 1, hi))

SumSeq(xs) == SumRange(xs, 1, Len(xs))
SeqMax(xs) == MaxRange(xs, 1, Len(xs))
SeqMin(xs) == MinRange(xs, 1, Len(xs))

\* the columns df['admission_count'] and df['admission_date']
Counts(df) == [i \in 1 .. Len(df) |-> df[i].admission_count]
Dates(df) == [i \in 1 .. Len(df) |-> df[i].admission_date]

\* sum of admission_count over rows lo..hi of df
SumCounts(df, lo, hi) == SumRange(Counts(df), lo, hi)

\* shift(-lag): the count lag rows later
Shift_Forward(df, i, lag) ==
    IF i + lag <= Len(df) THEN <<df[i + lag].admission_count, 1>> ELSE <<>>

\* df['admission_count'].shift(lag) at row i: the count lag rows earlier, or NaN
Shift(df, i, lag) ==
    IF i - lag >= 1 THEN <<df[i - lag].admission_count, 1>> ELSE <<>>

\* the window ends one row early: rows i-window .. i-1
RollingMean_Lagging(df, i, window) ==
    IF i > window THEN <<SumCounts(df, i - window, i - 1), window>> ELSE <<>>

\* df['admission_count'].rolling(window).mean() at row i: NaN until the window is full
RollingMean(df, i, window) ==
    IF i >= window THEN <<SumCounts(df, i - window + 1, i), window>> ELSE <<>>

AddTemporalFeatures(df) ==
    [i \in 1 .. Len(df) |->
        LET z == df[i].admission_date
            c == CivilFromDays(z)
        IN  [admission_date |-> z,
             admission_count |-> df[i].admission_count,
             year |-> c[1],
             month |-> c[2],
             day |-> c[3],
             day_of_week |-> Weekday(z),
             day_of_year |-> DayOfYear(z),
             week_of_year |-> WeekOfYear(z),
             is_weekend |-> IF Weekday(z) >= 5 THEN 1 ELSE 0,
             season |-> GetSeason(c[2]),
             admission_count_lag_1 |-> Shift(df, i, Lags[1]),
             admission_count_lag_3 |-> Shift(df, i, Lags[2]),
             admission_count_lag_7 |-> Shift(df, i, Lags[3]),
             admission_count_lag_14 |-> Shift(df, i, Lags[4]),
             admission_count_lag_30 |-> Shift(df, i, Lags[5]),
             admission_count_rolling_3 |-> RollingMean(df, i, Windows[1]),
             admission_count_rolling_7 |-> RollingMean(df, i, Windows[2]),
             admission_count_rolling_14 |-> RollingMean(df, i, Windows[3]),
             admission_count_rolling_30 |-> RollingMean(df, i, Windows[4])]]

\* the columns that can hold NaN (the calendar columns come from a non-NaT key)
FloatCols ==
    {"admission_count_lag_1", "admission_count_lag_3", "admission_count_lag_7",
     "admission_count_lag_14", "admission_count_lag_30",
     "admission_count_rolling_3", "admission_count_rolling_7",
     "admission_count_rolling_14", "admission_count_rolling_30"}

\* self.daily_admissions as _prepare_data leaves it
DailyAdmissionsOf(tbl) == AddTemporalFeatures(PrepareData(tbl))

---------------------------------------------------------------------------
(* Rationals *)

\* a < b and a = b for fractions of positive denominators; fractions of one
\* denominator are compared by their numerators
RatLess(a, b) == IF a[2] = b[2] THEN a[1] < b[1] ELSE a[1] * b[2] < b[1] * a[2]
RatEq(a, b) == IF a[2] = b[2] THEN a[1] = b[1] ELSE a[1] * b[2] = b[1] * a[2]
Abs(x) == IF x < 0 THEN -x ELSE x

\* round(x) of Python 3 on x = num/den (den > 0): to nearest, halves to even
PyRound(num, den) ==
    LET q == num \div den
        r == num - q * den
    IN  IF 2 * r < den THEN q
        ELSE IF 2 * r > den THEN q + 1
        ELSE IF q % 2 = 0 THEN q ELSE q + 1

\* int(x) on x = num/den >= 0
PyInt(x) == x[1] \div x[2]

\* int(round(prediction)) without the clamp
ClampPrediction_NoClamp(raw4) == PyRound(raw4, 4)

---------------------------------------------------------------------------
(* predict_daily_admissions: training, scoring and selection *)

\* the target is the first feature
FeatureCols_WithTarget ==
    <<"admission_count", "month", "day_of_week", "day_of_year", "week_of_year",
      "is_weekend", "season", "admission_count_lag_1", "admission_count_lag_3",
      "admission_count_lag_7", "admission_count_rolling_3",
      "admission_count_rolling_7">>

\* feature_cols, in the order the frames X and X_pred are built in
FeatureCols ==
    <<"month", "day_of_week", "day_of_year", "week_of_year", "is_weekend",
      "season", "admission_count_lag_1", "admission_count_lag_3",
      "admission_count_lag_7", "admission_count_rolling_3",
      "admission_count_rolling_7">>

\* config.TEST_SIZE = 0.2
TEST_SIZE == <<1, 5>>

\* the keys of the models dict, in insertion order
Candidates == <<"random_forest", "gradient_boosting", "linear_regression">>

\* no row is dropped
DropNa_KeepAll(df) == df

\* self.daily_admissions.dropna(): the rows none of whose columns is NaN
DropNa(df) ==
    LET complete(row) == \A col \in FloatCols : row[col] # <<>>
    IN  SelectSeq(df, complete)

\* the row check is one row too lenient
InsufficientData_Lenient(clean) == Len(clean) < 29

\* len(clean_data) < 30
InsufficientData(clean) == Len(clean) < 30

\* frame[cols]: each row as the vector of its cols, in that order
Columns(row, cols) == [j \in 1 .. Len(cols) |-> row[cols[j]]]

\* train_test_split(X, y, test_size=TEST_SIZE, shuffle=False): the number of
\* held-out rows is ceil(test_size * n), the rest are training rows
NTest(n) == (TEST_SIZE[1] * n + TEST_SIZE[2] - 1) \div TEST_SIZE[2]

\* the held-out rows are taken from the front
TestRows_Leading(clean) == SubSeq(clean, 1, NTest(Len(clean)))

TrainRows(clean) == SubSeq(clean, 1, Len(clean) - NTest(Len(clean)))
TestRows(clean) == SubSeq(clean, Len(clean) - NTest(Len(clean)) + 1, Len(clean))

\* What model.fit leaves behind is opaque: a fitted estimator is a function of
\* the feature vector, here a + b * day_of_week in quarters of an admission,
\* and which one a fit yields is the library's choice.
Behaviours == {[a |-> 5, b |-> 0], [a |-> -6, b |-> 2]}
Fits == [SeqRange(Candidates) -> Behaviours]
Unfitted == [known |-> FALSE, by |-> [c \in SeqRange(Candidates) |-> [a |-> 0, b |-> 0]]]

\* A fit can also raise, and then the estimator has no fitted function.  The
\* exception is the library's own; nothing between line 168 and line 186
\* catches it.
NotFitted == [a |-> 0, b |-> 0]
FitException == "exception raised by model.fit"
FaultyFits == [SeqRange(Candidates) -> Behaviours \cup {NotFitted}]

\* the positions, in training order, of the candidates whose fit raises
FailedFits(fit) == {k \in 1 .. Len(Candidates) : fit[Candidates[k]] = NotFitted}

\* model.predict(x)[0] in quarters; x is a vector in FeatureCols order
ModelPredict(beh, x) == beh.a + beh.b * x[2]

\* mean_absolute_error(y_test, y_pred)
MeanAbsoluteError(y, pred4) ==
    <<SumSeq([i \in 1 .. Len(y) |-> Abs(4 * y[i] - pred4[i])]), 4 * Len(y)>>

\* mean_squared_error(y_test, y_pred)
MeanSquaredError(y, pred4) ==
    <<SumSeq([i \in 1 .. Len(y) |-> (4 * y[i] - pred4[i]) * (4 * y[i] - pred4[i])]),
      16 * Len(y)>>

\* r2_score(y_test, y_pred) = 1 - SS_res / SS_tot; with a constant y_test it is
\* 1.0 for a perfect prediction and 0.0 otherwise
R2Score(y, pred4) ==
    LET m     == Len(y)
        sse16 == MeanSquaredError(y, pred4)[1]
        mtot  == m * SumSeq([i \in 1 .. m |-> y[i] * y[i]]) - SumSeq(y) * SumSeq(y)
    IN  IF mtot = 0 THEN (IF sse16 = 0 THEN <<1, 1>> ELSE <<0, 1>>)
        ELSE <<16 * mtot - m * sse16, 16 * mtot>>

\* one pass of the training loop: fit, predict the held-out rows, score
ModelResult(beh, test) ==
    LET y     == [i \in 1 .. Len(test) |-> test[i].admission_count]
        pred4 == [i \in 1 .. Len(test) |-> ModelPredict(beh, Columns(test[i], FeatureCols))]
    IN  [mae |-> MeanAbsoluteError(y, pred4),
         mse |-> MeanSquaredError(y, pred4),
         r2 |-> R2Score(y, pred4),
         predictions |-> pred4]

\* max(model_results.keys(), key=lambda x: model_results[x]['r2']): the first
\* key, in insertion order, that no other key exceeds
Better(results, best, name) ==
    IF RatLess(results[best].r2, results[name].r2) THEN name ELSE best

\* the class name of the first candidate instead of a key of the results
BestModelName_ClassName(results) == "RandomForestRegressor"

BestModelName(results) ==
    LET f[i \in 1 .. Len(Candidates)] ==
            IF i = 1 THEN Candidates[1]
            ELSE Better(results, f[i - 1], Candidates[i])
    IN  f[Len(Candidates)]

---------------------------------------------------------------------------
(* _generate_future_predictions and _get_feature_importance *)

\* the dates start at last_date itself
FutureDate_FromLast(last_date, i) == last_date + i

\* last_date + timedelta(days=i+1), i in range(days_ahead)
FutureDate(last_date, i) == last_date + (i + 1)

\* max(0, int(round(prediction))), the prediction given in quarters
ClampPrediction(raw4) ==
    LET r == PyRound(raw4, 4) IN IF r > 0 THEN r ELSE 0

\* the mean of the last 7 counts
RecentValues_LastWeek(df) ==
    LET lo == IF Len(df) > 7 THEN Len(df) - 6 ELSE 1
    IN  <<SumCounts(df, lo, Len(df)), Len(df) - lo + 1>>

\* self.daily_admissions['admission_count'].tail(30).mean()
RecentValues(df) ==
    LET lo == IF Len(df) > 30 THEN Len(df) - 29 ELSE 1
    IN  <<SumCounts(df, lo, Len(df)), Len(df) - lo + 1>>

\* the features dict built for one future date
FutureFeatures(df, date) ==
    LET recent_values == RecentValues(df)
    IN  [month |-> MonthOf(date),
         day_of_week |-> Weekday(date),
         day_of_year |-> DayOfYear(date),
         week_of_year |-> WeekOfYear(date),
         is_weekend |-> IF Weekday(date) >= 5 THEN 1 ELSE 0,
         season |-> GetSeason(MonthOf(date)),
         admission_count_lag_1 |-> recent_values,
         admission_count_lag_3 |-> recent_values,
         admission_count_lag_7 |-> recent_values,
         admission_count_rolling_3 |-> recent_values,
         admission_count_rolling_7 |-> recent_values]

\* One entry per future date.  date and predicted_admissions are the returned
\* dict; x_pred (the frame handed to the model) and raw4 (what model.predict
\* returned, in quarters) are kept beside them for the record.
PointRecord(date, x_pred, raw4) ==
    [date |-> Strftime(date),
     predicted_admissions |-> ClampPrediction(raw4),
     x_pred |-> x_pred,
     raw4 |-> raw4]

\* X_pred = pd.DataFrame([features])[feature_cols]; model.predict(X_pred)[0]
PredictPoint(beh, date, x_pred) == PointRecord(date, x_pred, ModelPredict(beh, x_pred))

\* the frame of a future date is built with its first two columns exchanged
FuturePoint_Swapped(df, beh, feature_cols, date) ==
    PredictPoint(beh, date,
        Columns(FutureFeatures(df, date),
                [j \in 1 .. Len(feature_cols) |->
                    IF j = 1 THEN feature_cols[2]
                    ELSE IF j = 2 THEN feature_cols[1]
                    ELSE feature_cols[j]]))

FuturePoint(df, beh, feature_cols, date) ==
    PredictPoint(beh, date, Columns(FutureFeatures(df, date), feature_cols))

\* the loop stops one date early
FuturePoints_OneShort(df, beh, feature_cols, days_ahead, last_date) ==
    [k \in 1 .. (IF days_ahead > 1 THEN days_ahead - 1 ELSE 0) |->
        FuturePoint(df, beh, feature_cols, FutureDate(last_date, k - 1))]

\* range(days_ahead) is empty for days_ahead <= 0
\* the dates are counted back from the end of the horizon
FuturePoints_Descending(df, beh, feature_cols, days_ahead, last_date) ==
    [k \in 1 .. (IF days_ahead > 0 THEN days_ahead ELSE 0) |->
        FuturePoint(df, beh, feature_cols, FutureDate(last_date, days_ahead - k))]

FuturePoints(df, beh, feature_cols, days_ahead, last_date) ==
    [k \in 1 .. (IF days_ahead > 0 THEN days_ahead ELSE 0) |->
        FuturePoint(df, beh, feature_cols, FutureDate(last_date, k - 1))]

\* self.daily_admissions['admission_date'].max()
LastDate(df) == SeqMax(Dates(df))

GenerateFuturePredictions(df, beh, feature_cols, days_ahead) ==
    FuturePoints(df, beh, feature_cols, days_ahead, LastDate(df))

\* the dicts of the returned list
Returned(points) ==
    [k \in 1 .. Len(points) |->
        [date |-> points[k].date,
         predicted_admissions |-> points[k].predicted_admissions]]

\* only the tree ensembles have feature_importances_
HasImportances(name) == name \in {"random_forest", "gradient_boosting"}

\* dict(sorted(zip(feature_cols, importances), key=importance, reverse=True)):
\* the pairs by descending importance, equal ones in their original order.
\* The importance of a column is how much the fitted function moves with it.
GetFeatureImportance(name, beh, feature_cols) ==
    LET w(j) == IF feature_cols[j] = "day_of_week" THEN Abs(beh.b) ELSE 0
        n == Len(feature_cols)
        rank(j) == Cardinality({k \in 1 .. n : w(k) > w(j)})
                   + Cardinality({k \in 1 .. (j - 1) : w(k) = w(j)}) + 1
    IN  IF HasImportances(name)
        THEN [r \in 1 .. n |->
                LET j == CHOOSE k \in 1 .. n : rank(k) = r
                IN  <<feature_cols[j], w(j)>>]
        ELSE <<>>

\* The outcome of predict_daily_admissions(days_ahead) on a predictor whose
\* fits come out as fit.  value is the returned dict; trained (the candidates
\* fitted), train_dates/test_dates (the rows of X_train/X_test) and points are
\* the record of what the call did.
PredictDailyAdmissions(df, fit, days_ahead) ==
    LET clean_data == DropNa(df)
    IN  IF InsufficientData(clean_data)
        THEN [status |-> "returned", exc |-> "",
              value |-> [error |-> "Insufficient data for prediction"],
              trained |-> <<>>, train_dates |-> <<>>, test_dates |-> <<>>,
              points |-> <<>>]
        ELSE IF FailedFits(fit) # {}
        THEN \* the loop is left at the first fit that raises
             [status |-> "raised", exc |-> FitException, value |-> <<>>,
              trained |-> SubSeq(Candidates, 1, SetMin(FailedFits(fit)) - 1),
              train_dates |-> [i \in 1 .. Len(TrainRows(clean_data)) |->
                                  TrainRows(clean_data)[i].admission_date],
              test_dates |-> [i \in 1 .. Len(TestRows(clean_data)) |->
                                 TestRows(clean_data)[i].admission_date],
              points |-> <<>>]
        ELSE LET train == TrainRows(clean_data)
                 test  == TestRows(clean_data)
                 model_results ==
                     [c \in SeqRange(Candidates) |-> ModelResult(fit[c], test)]
                 best_model_name == BestModelName(model_results)
                 points == GenerateFuturePredictions(
                               df, fit[best_model_name], FeatureCols, days_ahead)
             IN  [status |-> "returned", exc |-> "",
                  value |-> [best_model |-> best_model_name,
                             model_metrics |-> model_results,
                             future_predictions |-> Returned(points),
                             feature_importance |->
                                 GetFeatureImportance(best_model_name,
                                     fit[best_model_name], FeatureCols)],
                  trained |-> Candidates,
                  train_dates |-> [i \in 1 .. Len(train) |-> train[i].admission_date],
                  test_dates |-> [i \in 1 .. Len(test) |-> test[i].admission_date],
                  points |-> points]

---------------------------------------------------------------------------
(* np.percentile and the statistics of pandas *)

\* sorted(xs)[k], k counted from 0
KthSmallest(xs, k) ==
    CHOOSE v \in SeqRange(xs) :
        /\ Cardinality({i \in 1 .. Len(xs) : xs[i] < v}) <= k
        /\ Cardinality({i \in 1 .. Len(xs) : xs[i] <= v}) >= k + 1

\* the order statistic is read from the top: the (100 - q)-th percentile
NpPercentile_FromTop(xs, q) ==
    LET n   == Len(xs)
        pos == (n - 1) * (100 - q)
        lo  == pos \div 100
        rem == pos % 100
        hi  == IF lo + 1 <= n - 1 THEN lo + 1 ELSE n - 1
        alo == KthSmallest(xs, lo)
        ahi == KthSmallest(xs, hi)
    IN  <<100 * alo + rem * (ahi - alo), 100>>

\* np.percentile(xs, q), 0 <= q <= 100, xs not empty: linear interpolation
\* between the order statistics around the virtual index (n - 1) * q / 100
NpPercentile(xs, q) ==
    LET n   == Len(xs)
        pos == (n - 1) * q
        lo  == pos \div 100
        rem == pos % 100
        hi  == IF lo + 1 <= n - 1 THEN lo + 1 ELSE n - 1
        alo == KthSmallest(xs, lo)
        ahi == KthSmallest(xs, hi)
    IN  <<100 * alo + rem * (ahi - alo), 100>>

\* the range of q np.percentile accepts; outside it raises ValueError
PercentileIsValid(q) == q >= 0 /\ q <= 100

Mean(xs) == <<SumSeq(xs), Len(xs)>>

\* Series.std() (ddof = 1) as the square root of a rational; NaN for one value
Std(xs) ==
    LET n == Len(xs)
        ss == n * SumSeq([i \in 1 .. n |-> xs[i] * xs[i]]) - SumSeq(xs) * SumSeq(xs)
    IN  IF n < 2 THEN <<>> ELSE <<"sqrt", <<ss, n * (n - 1)>>>>

\* Series.value_counts().to_dict() of column col over rows
ValueCounts(rows, col) ==
    [v \in {rows[i][col] : i \in 1 .. Len(rows)} |->
        Cardinality({i \in 1 .. Len(rows) : rows[i][col] = v})]

\* df.groupby(col)['admission_count'].agg(['mean', 'max', 'std']).to_dict()
GroupCounts(df, col, v) == Counts(SelectSeq(df, LAMBDA row : row[col] = v))
GroupKeys(df, col) == {df[i][col] : i \in 1 .. Len(df)}
GroupAgg(df, col) ==
    [mean |-> [v \in GroupKeys(df, col) |-> Mean(GroupCounts(df, col, v))],
     max |-> [v \in GroupKeys(df, col) |-> SeqMax(GroupCounts(df, col, v))],
     std |-> [v \in GroupKeys(df, col) |-> Std(GroupCounts(df, col, v))]]

---------------------------------------------------------------------------
(* predict_busy_periods *)

\* predict_daily_admissions(90) inside predict_busy_periods
BusyHorizon == 90

\* what the call raises on an empty daily aggregate: np.percentile of an
\* empty array either raises IndexError or returns nan, and then 0 / 0 raises
EmptyErrors == {"IndexError", "ZeroDivisionError"}

Raised(name) ==
    [status |-> "raised", exc |-> name, value |-> <<>>,
     trained |-> <<>>, train_dates |-> <<>>, test_dates |-> <<>>, points |-> <<>>]

\* the threshold of the busy days
BusyThreshold(df, threshold_percentile) == NpPercentile(Counts(df), threshold_percentile)

\* a day at the threshold is not busy
IsBusy_Strict(count, threshold) == count * threshold[2] > threshold[1]

\* admission_count >= threshold
IsBusy(count, threshold) == count * threshold[2] >= threshold[1]

\* only the rows above the threshold
BusyDays_Above(df, threshold) ==
    SelectSeq(df, LAMBDA row : row.admission_count * threshold[2] > threshold[1])

\* the rows at or above the threshold
BusyDays(df, threshold) ==
    SelectSeq(df, LAMBDA row : IsBusy(row.admission_count, threshold))

\* the historical part of the report
BusyPatterns(df, threshold, busy_days) ==
    [threshold |-> threshold,
     busy_day_count |-> Len(busy_days),
     busy_day_percentage |-> <<Len(busy_days) * 100, Len(df)>>,
     average_busy_day_admissions |->
         IF Len(busy_days) = 0 THEN <<>> ELSE Mean(Counts(busy_days)),
     busy_months |-> ValueCounts(busy_days, "month"),
     busy_days_of_week |-> ValueCounts(busy_days, "day_of_week"),
     busy_seasons |-> ValueCounts(busy_days, "season")]

\* predicted_busy_days counts the days of the horizon
FutureBusy_CountsHorizon(future_busy_periods) ==
    [future_busy_periods |-> future_busy_periods,
     predicted_busy_days |-> BusyHorizon]

\* the forecast part, added when daily_predictions has 'future_predictions'
FutureBusy(future_busy_periods) ==
    [future_busy_periods |-> future_busy_periods,
     predicted_busy_days |-> Len(future_busy_periods)]

\* the forecast fields are defaulted to an empty list and 0 when there is no
\* forecast
BusyReport_Defaulted(df, threshold, daily_predictions) ==
    [status |-> "returned", exc |-> "",
     value |-> IF "future_predictions" \in DOMAIN daily_predictions.value
               THEN FutureBusy(SelectSeq(daily_predictions.value.future_predictions,
                        LAMBDA pred : IsBusy(pred.predicted_admissions, threshold)))
                    @@ BusyPatterns(df, threshold, BusyDays(df, threshold))
               ELSE FutureBusy(<<>>)
                    @@ BusyPatterns(df, threshold, BusyDays(df, threshold)),
     trained |-> daily_predictions.trained,
     train_dates |-> daily_predictions.train_dates,
     test_dates |-> daily_predictions.test_dates,
     points |-> daily_predictions.points]

\* the report, daily_predictions being what predict_daily_admissions(90) gave
BusyReport(df, threshold, daily_predictions) ==
    [status |-> "returned", exc |-> "",
     value |-> IF "future_predictions" \in DOMAIN daily_predictions.value
               THEN FutureBusy(SelectSeq(daily_predictions.value.future_predictions,
                        LAMBDA pred : IsBusy(pred.predicted_admissions, threshold)))
                    @@ BusyPatterns(df, threshold, BusyDays(df, threshold))
               ELSE BusyPatterns(df, threshold, BusyDays(df, threshold)),
     trained |-> daily_predictions.trained,
     train_dates |-> daily_predictions.train_dates,
     test_dates |-> daily_predictions.test_dates,
     points |-> daily_predictions.points]

\* an exception of the nested predict_daily_admissions(90) leaves the call
BusyOutcome(df, threshold, daily_predictions) ==
    IF daily_predictions.status = "raised" THEN daily_predictions
    ELSE BusyReport(df, threshold, daily_predictions)

PredictBusyPeriods(df, fit, threshold_percentile, empty_exc) ==
    IF ~PercentileIsValid(threshold_percentile) THEN Raised("ValueError")
    ELSE IF Len(df) = 0 THEN Raised(empty_exc)
    ELSE BusyOutcome(df, BusyThreshold(df, threshold_percentile),
                     PredictDailyAdmissions(df, fit, BusyHorizon))

---------------------------------------------------------------------------
(* analyze_capacity_requirements *)

\* Series.describe()
Describe(xs) ==
    [count |-> Len(xs), mean |-> Mean(xs), std |-> Std(xs), min |-> SeqMin(xs),
     p25 |-> NpPercentile(xs, 25), p50 |-> NpPercentile(xs, 50),
     p75 |-> NpPercentile(xs, 75), max |-> SeqMax(xs)]

\* percentile_95 and percentile_75 are computed for each other's rank
PeakRequirements_Swapped(xs) ==
    [max_daily_admissions |-> SeqMax(xs),
     percentile_95 |-> PyInt(NpPercentile(xs, 75)),
     percentile_90 |-> PyInt(NpPercentile(xs, 90)),
     percentile_75 |-> PyInt(NpPercentile(xs, 95))]

\* the peak_requirements dict
PeakRequirements(xs) ==
    [max_daily_admissions |-> SeqMax(xs),
     percentile_95 |-> PyInt(NpPercentile(xs, 95)),
     percentile_90 |-> PyInt(NpPercentile(xs, 90)),
     percentile_75 |-> PyInt(NpPercentile(xs, 75))]

\* the analysis is refused when the history is too short for a forecast
AnalyzeCapacityRequirements_Gated(df) ==
    IF Len(DropNa(df)) < 30 THEN Raised("ValueError")
    ELSE [status |-> "returned", exc |-> "",
          value |-> [daily_admission_stats |-> Describe(Counts(df)),
                     peak_requirements |-> PeakRequirements(Counts(df)),
                     monthly_patterns |-> GroupAgg(df, "month"),
                     day_of_week_patterns |-> GroupAgg(df, "day_of_week")],
          trained |-> <<>>, train_dates |-> <<>>, test_dates |-> <<>>,
          points |-> <<>>]

\* on an empty aggregate max() is nan and int(nan) raises ValueError
AnalyzeCapacityRequirements(df) ==
    IF Len(df) = 0 THEN Raised("ValueError")
    ELSE [status |-> "returned", exc |-> "",
          value |-> [daily_admission_stats |-> Describe(Counts(df)),
                     peak_requirements |-> PeakRequirements(Counts(df)),
                     monthly_patterns |-> GroupAgg(df, "month"),
                     day_of_week_patterns |-> GroupAgg(df, "day_of_week")],
          trained |-> <<>>, train_dates |-> <<>>, test_dates |-> <<>>,
          points |-> <<>>]

---------------------------------------------------------------------------
(* The state machine *)

NoCall ==
    [op |-> "none", arg |-> 0] @@ Raised("")

\* __init__: the table is copied, the registries start empty, _prepare_data runs
Init ==
    \E tbl \in Tables :
        /\ data = tbl
        /\ daily_admissions = DailyAdmissionsOf(tbl)
        /\ registries = [models |-> {}, scalers |-> {}, encoders |-> {},
                         feature_importance |-> {}]
        /\ fitted = Unfitted
        /\ ret = NoCall

\* The fits of one history are the same in every call (the seeds are pinned):
\* the first call that trains fixes them.
\* Only a history that gets past the row check is ever fitted.
FitChoices ==
    IF fitted.known \/ InsufficientData(DropNa(daily_admissions))
    THEN {fitted.by} ELSE Fits
\* which exception an empty aggregate raises depends on the numpy installed
EmptyChoices == IF Len(daily_admissions) = 0 THEN EmptyErrors ELSE {"IndexError"}
Remember(fit, out) ==
    IF out.trained # <<>> \/ out.exc = FitException
    THEN [known |-> TRUE, by |-> fit] ELSE fitted

\* a public call ends: out is what it returned or raised
\* the trained candidates are kept in self.models
Return_Registering(op, arg, fit, out) ==
    /\ ret' = [op |-> op, arg |-> arg] @@ out
    /\ fitted' = Remember(fit, out)
    /\ registries' = [registries EXCEPT !.models = @ \cup SeqRange(out.trained)]
    /\ UNCHANGED <<data, daily_admissions>>

Return(op, arg, fit, out) ==
    /\ ret' = [op |-> op, arg |-> arg] @@ out
    /\ fitted' = Remember(fit, out)
    /\ UNCHANGED <<data, daily_admissions, registries>>

CallPredictDailyAdmissions(days_ahead) ==
    \E fit \in FitChoices :
        Return("predict_daily_admissions", days_ahead, fit,
               PredictDailyAdmissions(daily_admissions, fit, days_ahead))

CallPredictBusyPeriods(threshold_percentile) ==
    \E fit \in FitChoices, empty_exc \in EmptyChoices :
        Return("predict_busy_periods", threshold_percentile, fit,
               PredictBusyPeriods(daily_admissions, fit, threshold_percentile, empty_exc))

CallAnalyzeCapacityRequirements ==
    \E out \in {AnalyzeCapacityRequirements(daily_admissions)} :
        Return("analyze_capacity_requirements", 0, fitted.by, out)

Next ==
    \/ \E days_ahead \in Horizons : CallPredictDailyAdmissions(days_ahead)
    \/ \E p \in Percentiles : CallPredictBusyPeriods(p)
    \/ CallAnalyzeCapacityRequirements

Spec == Init /\ [][Next]_vars

---------------------------------------------------------------------------
(* What the state says about the last call *)

CalledForecast == ret.op = "predict_daily_admissions"
CalledBusy == ret.op = "predict_busy_periods"
CalledCapacity == ret.op = "analyze_capacity_requirements"

\* the feature-complete rows of the history
CleanRows == DropNa(daily_admissions)

\* first and last parseable admission date of the raw table
FirstObserved == SetMin(ParsedDates(data))
LastObserved == SetMax(ParsedDates(data))

\* the day a '%Y-%m-%d' string names, <<>> if it names none
DayNamed(str) == ToDatetime(<<str[3], str[2], str[1]>>)

\* the last call returned a full forecast result
ForecastReturned ==
    /\ CalledForecast
    /\ ret.status = "returned"
    /\ "future_predictions" \in DOMAIN ret.value

\* the last call returned a busy-period report
BusyReturned == CalledBusy /\ ret.status = "returned"

\* the percentiles np.percentile accepts among those requested
AcceptedPercentiles == {p \in Percentiles : PercentileIsValid(p)}

---------------------------------------------------------------------------
(* C1 *)

\* C1: for every table whose parseable admission dates span [d0, dN], the
\* daily aggregate has exactly dN - d0 + 1 rows, the i-th row is the calendar
\* day d0 + i - 1, and its admission_count is the number of admissions of that
\* day, 0 for a day without admissions.
C1_DailyAggregateCoversSpan ==
    ParsedDates(data) # {} =>
        /\ Len(daily_admissions) = LastObserved - FirstObserved + 1
        /\ \A i \in 1 .. Len(daily_admissions) :
               /\ daily_admissions[i].admission_date = FirstObserved + i - 1
               /\ daily_admissions[i].admission_count
                      = GroupSize(data, FirstObserved + i - 1)

\* a day inside the span has no admission, and the aggregate has no row for it
C1_GapDayHasNoRow ==
    /\ ParsedDates(data) # {}
    /\ \E z \in FirstObserved .. LastObserved :
           /\ GroupSize(data, z) = 0
           /\ \A i \in 1 .. Len(daily_admissions) :
                  daily_admissions[i].admission_date # z
    /\ Len(daily_admissions) < LastObserved - FirstObserved + 1

---------------------------------------------------------------------------
(* C2 *)

---------------------------------------------------------------------------
(* C3 *)

\* C3: for every horizon n >= 1 and every history with at least 30
\* feature-complete rows, predict_daily_admissions(n) returns exactly n
\* forecast points and the i-th is dated the last observed date plus i days;
\* the same holds of the 90 points predict_busy_periods asks for.
C3_ForecastDatesContiguous ==
    /\ (CalledForecast /\ ret.arg >= 1 /\ Len(CleanRows) >= 30) =>
           /\ ForecastReturned
           /\ Len(ret.value.future_predictions) = ret.arg
           /\ \A i \in 1 .. ret.arg :
                  DayNamed(ret.value.future_predictions[i].date)
                      = <<LastObserved + i>>
    /\ (BusyReturned /\ Len(CleanRows) >= 30) =>
           /\ Len(ret.points) = BusyHorizon
           /\ \A i \in 1 .. BusyHorizon :
                  DayNamed(ret.points[i].date) = <<LastObserved + i>>

\* a forecast over the longest horizon was returned
C3_LongestHorizonForecast ==
    /\ ForecastReturned
    /\ ret.arg = MaxHorizon
    /\ Len(ret.value.future_predictions) = MaxHorizon
    /\ DayNamed(ret.value.future_predictions[MaxHorizon].date)
           = <<LastObserved + MaxHorizon>>

---------------------------------------------------------------------------
(* C4 *)

\* C4: every predicted_admissions of every forecast is a non-negative integer:
\* a nearest integer of the raw prediction (the even one of two) when that is
\* not negative, and 0 when the raw prediction rounds to a negative number.
C4_PredictedAdmissionsClamped ==
    /\ \A k \in 1 .. Len(ret.points) :
           LET v    == ret.points[k].predicted_admissions
               raw4 == ret.points[k].raw4
           IN  /\ v \in Nat
               /\ v > 0 => (4 * v - raw4) \in (-2) .. 2
               /\ (v > 0 /\ Abs(4 * v - raw4) = 2) => v % 2 = 0
               /\ v = 0 => raw4 <= 2
    /\ ForecastReturned =>
           /\ Len(ret.value.future_predictions) = Len(ret.points)
           /\ \A k \in 1 .. Len(ret.points) :
                  ret.value.future_predictions[k].predicted_admissions
                      = ret.points[k].predicted_admissions

\* a forecast point whose raw prediction rounds to a negative number came out 0
C4_NegativeRawClamped ==
    /\ ForecastReturned
    /\ \E k \in 1 .. Len(ret.points) :
           /\ ret.points[k].raw4 <= -4
           /\ ret.value.future_predictions[k].predicted_admissions = 0

---------------------------------------------------------------------------
(* C5 *)

\* C5: best_model is a candidate of the highest R2 on the held-out split, and
\* among the candidates that tie on the highest R2 it has the lowest MAE.
C5_BestModelBreaksTiesByMAE ==
    ForecastReturned =>
        LET m == ret.value.model_metrics
            b == ret.value.best_model
        IN  \A c \in SeqRange(Candidates) :
                /\ ~RatLess(m[b].r2, m[c].r2)
                /\ RatEq(m[c].r2, m[b].r2) => ~RatLess(m[c].mae, m[b].mae)

\* best_model ties on R2 with a candidate of strictly lower MAE
C5_TieGoesToFirstCandidate ==
    /\ ForecastReturned
    /\ \E c \in SeqRange(Candidates) :
           /\ RatEq(ret.value.model_metrics[c].r2,
                    ret.value.model_metrics[ret.value.best_model].r2)
           /\ RatLess(ret.value.model_metrics[c].mae,
                      ret.value.model_metrics[ret.value.best_model].mae)

---------------------------------------------------------------------------
(* C6 *)

\* C6: the held-out rows are the chronologically trailing fifth (rounded up)
\* of the feature-complete rows, unshuffled: training rows followed by
\* held-out rows are the feature-complete rows in their order, no date is in
\* both, and every training row is dated before every held-out row.
C6_HeldOutIsTrailingFifth ==
    ret.trained # <<>> =>
        LET tr == ret.train_dates
            te == ret.test_dates
            n  == Len(CleanRows)
        IN  /\ 5 * Len(te) >= n
            /\ 5 * (Len(te) - 1) < n
            /\ Len(tr) + Len(te) = n
            /\ \A i \in 1 .. n :
                   CleanRows[i].admission_date = (tr \o te)[i]
            /\ SeqRange(tr) \cap SeqRange(te) = {}
            /\ \A i \in 1 .. Len(tr) : \A j \in 1 .. Len(te) : tr[i] < te[j]

\* a history of 66 feature-complete rows was split 52 : 14
C6_UnevenSplit ==
    /\ CalledForecast
    /\ ret.trained # <<>>
    /\ Len(CleanRows) = 66
    /\ Len(ret.train_dates) = 52
    /\ Len(ret.test_dates) = 14

---------------------------------------------------------------------------
(* C7 *)

\* C7: predict_busy_periods called with a percentile outside (0, 100] fails
\* with InvalidParameterError and produces no report.
C7_InvalidPercentileRejected ==
    (CalledBusy /\ (ret.arg <= 0 \/ ret.arg > 100)) =>
        /\ ret.status = "raised"
        /\ ret.exc = "InvalidParameterError"

\* percentile 0 gave a report in which every day of the history is busy
C7_ZeroPercentileReport ==
    /\ BusyReturned
    /\ ret.arg = 0
    /\ Len(daily_admissions) > 0
    /\ ret.value.busy_day_count = Len(daily_admissions)

---------------------------------------------------------------------------
(* C8 *)

\* C8: predict_daily_admissions called with a zero or negative horizon fails
\* with InvalidParameterError; it never returns a result for such a horizon.
C8_NonPositiveHorizonRejected ==
    (CalledForecast /\ ret.arg <= 0) =>
        /\ ret.status = "raised"
        /\ ret.exc = "InvalidParameterError"

\* a non-positive horizon trained the candidates and returned an empty forecast
C8_EmptyForecastReturned ==
    /\ ForecastReturned
    /\ ret.arg <= 0
    /\ ret.trained = Candidates
    /\ ret.value.future_predictions = <<>>

---------------------------------------------------------------------------
(* C9 *)

\* C9: for every non-empty daily aggregate the peak_requirements of
\* analyze_capacity_requirements satisfy
\* percentile_95 >= percentile_90 >= percentile_75, as integers.
C9_PeakPercentilesOrdered ==
    (CalledCapacity /\ Len(daily_admissions) > 0) =>
        /\ ret.status = "returned"
        /\ ret.value.peak_requirements.percentile_95 \in Int
        /\ ret.value.peak_requirements.percentile_90 \in Int
        /\ ret.value.peak_requirements.percentile_75 \in Int
        /\ ret.value.peak_requirements.percentile_95
               >= ret.value.peak_requirements.percentile_90
        /\ ret.value.peak_requirements.percentile_90
               >= ret.value.peak_requirements.percentile_75

\* a capacity analysis whose percentile_90 is strictly above its percentile_75
C9_StrictlyOrderedPeaks ==
    /\ CalledCapacity
    /\ ret.status = "returned"
    /\ ret.value.peak_requirements.percentile_90
           > ret.value.peak_requirements.percentile_75

---------------------------------------------------------------------------
(* C10 *)

\* C10: for fixed historical data the threshold of predict_busy_periods is
\* non-decreasing in the percentile and busy_day_count is non-increasing: the
\* report for P2 has a threshold no lower, and a busy_day_count no higher,
\* than those of every accepted P1 <= P2, and the other way round for P1 >= P2.
C10_ThresholdMonotone ==
    BusyReturned =>
        \A p1 \in AcceptedPercentiles :
            LET t1 == BusyThreshold(daily_admissions, p1)
                n1 == Len(BusyDays(daily_admissions, t1))
            IN  /\ p1 <= ret.arg =>
                       /\ ~RatLess(ret.value.threshold, t1)
                       /\ n1 >= ret.value.busy_day_count
                /\ p1 >= ret.arg =>
                       /\ ~RatLess(t1, ret.value.threshold)
                       /\ n1 <= ret.value.busy_day_count

\* a report whose threshold is strictly above, and whose busy_day_count is
\* strictly below, those of a lower accepted percentile
C10_StrictlyHigherThreshold ==
    /\ BusyReturned
    /\ \E p1 \in AcceptedPercentiles :
           /\ p1 < ret.arg
           /\ RatLess(BusyThreshold(daily_admissions, p1), ret.value.threshold)
           /\ Len(BusyDays(daily_admissions, BusyThreshold(daily_admissions, p1)))
                  > ret.value.busy_day_count

---------------------------------------------------------------------------
(* C11 *)

\* the name of the lag column of offset k and of the rolling column of window w
LagCol(k) ==
    CASE k = 1 -> "admission_count_lag_1"
      [] k = 3 -> "admission_count_lag_3"
      [] k = 7 -> "admission_count_lag_7"
      [] k = 14 -> "admission_count_lag_14"
      [] k = 30 -> "admission_count_lag_30"
RollingCol(w) ==
    CASE w = 3 -> "admission_count_rolling_3"
      [] w = 7 -> "admission_count_rolling_7"
      [] w = 14 -> "admission_count_rolling_14"
      [] w = 30 -> "admission_count_rolling_30"

\* the rows of the daily aggregate are in strictly ascending date order
ChronologicalOrder ==
    \A i \in 2 .. Len(daily_admissions) :
        daily_admissions[i - 1].admission_date < daily_admissions[i].admission_date

\* C11: the rows of the daily aggregate are chronologically ordered, and for
\* every lag offset k in {1, 3, 7, 14, 30} and every row i (counted from 0)
\* admission_count_lag_k of row i is the admission_count of row i - k when
\* i >= k and is missing when i < k.
C11_LagIsEarlierCount ==
    /\ ChronologicalOrder
    /\ \A k \in {1, 3, 7, 14, 30} : \A i \in 0 .. (Len(daily_admissions) - 1) :
           daily_admissions[i + 1][LagCol(k)] =
               IF i >= k THEN <<daily_admissions[i + 1 - k].admission_count, 1>>
               ELSE <<>>

\* a history in which a row has its lag of 30 rows defined, and a lag of one
\* row that differs from the row's own count
C11_LagsDefined ==
    \E i \in 1 .. Len(daily_admissions) :
        /\ daily_admissions[i].admission_count_lag_30 # <<>>
        /\ daily_admissions[i].admission_count_lag_1
               # <<daily_admissions[i].admission_count, 1>>
        /\ daily_admissions[1].admission_count_lag_1 = <<>>

---------------------------------------------------------------------------
(* C12 *)

\* C12: for every window w in {3, 7, 14, 30} and every row i (counted from 0)
\* of the daily aggregate, admission_count_rolling_w of row i is the
\* arithmetic mean of admission_count over rows i - w + 1 .. i when
\* i >= w - 1 and is missing when i < w - 1.
C12_RollingIsTrailingMean ==
    \A w \in {3, 7, 14, 30} : \A i \in 0 .. (Len(daily_admissions) - 1) :
        LET r == daily_admissions[i + 1][RollingCol(w)]
        IN  IF i >= w - 1
            THEN /\ r # <<>>
                 /\ r[2] > 0
                 /\ r[1] * w = r[2] * SumRange(Counts(daily_admissions), i + 2 - w, i + 1)
            ELSE r = <<>>

\* a history in which a row has its 30-row mean defined, the mean differing
\* from the row's own count, and the row before the first full window has none
C12_WindowsFull ==
    /\ Len(daily_admissions) >= 30
    /\ daily_admissions[29].admission_count_rolling_30 = <<>>
    /\ daily_admissions[30].admission_count_rolling_30 # <<>>
    /\ ~RatEq(daily_admissions[30].admission_count_rolling_30,
              <<daily_admissions[30].admission_count, 1>>)

---------------------------------------------------------------------------
(* C13 *)

\* C13: analyze_capacity_requirements has no model dependency.  Whatever call
\* came before it (none, a forecast that reported insufficient data, or any
\* other), on a non-empty daily aggregate it returns daily statistics, peak
\* requirements and monthly and weekday patterns, it trains no candidate, and
\* it leaves what is known of the fitted models as it was.
C13_CapacityNeedsNoModel ==
    [][(ret'.op = "analyze_capacity_requirements" /\ Len(daily_admissions) > 0) =>
          /\ ret'.status = "returned"
          /\ DOMAIN ret'.value = {"daily_admission_stats", "peak_requirements",
                                  "monthly_patterns", "day_of_week_patterns"}
          /\ ret'.value.daily_admission_stats.count = Len(daily_admissions)
          /\ ret'.trained = <<>>
          /\ ret'.points = <<>>
          /\ fitted' = fitted]_vars

\* a capacity analysis was returned for a non-empty history too short for a
\* forecast, no model having been fitted
C13_CapacityOnShortHistory ==
    /\ CalledCapacity
    /\ ret.status = "returned"
    /\ Len(daily_admissions) > 0
    /\ Len(CleanRows) < 30
    /\ fitted = Unfitted
    /\ ret.value.peak_requirements.max_daily_admissions > 0

---------------------------------------------------------------------------
(* C14 *)

\* the keys of the historical part of a busy-period report
HistoricalKeys ==
    {"threshold", "busy_day_count", "busy_day_percentage",
     "average_busy_day_admissions", "busy_months", "busy_days_of_week",
     "busy_seasons"}

---------------------------------------------------------------------------
(* C15: the scenario of 120 consecutive days alternating 10 and 20 *)

\* 120 consecutive days from 15/11/2019 whose counts alternate 10, 20,
\* beginning with either
ScenarioTables ==
    {Table(120, <<10, 20>>, 0, FALSE), Table(120, <<20, 10>>, 0, FALSE)}
ScenarioHorizons == {1, 7, 30}
ScenarioPercentiles == {50, 75, 90, 95}

InitScenario ==
    \E tbl \in ScenarioTables :
        /\ data = tbl
        /\ daily_admissions = DailyAdmissionsOf(tbl)
        /\ registries = [models |-> {}, scalers |-> {}, encoders |-> {},
                         feature_importance |-> {}]
        /\ fitted = Unfitted
        /\ ret = NoCall

NextScenario ==
    \/ \E days_ahead \in ScenarioHorizons : CallPredictDailyAdmissions(days_ahead)
    \/ \E p \in ScenarioPercentiles : CallPredictBusyPeriods(p)
    \/ CallAnalyzeCapacityRequirements

SpecScenario == InitScenario /\ [][NextScenario]_vars

\* C15: for 120 consecutive days whose counts alternate 10, 20 the daily
\* aggregate has 120 rows, one per day, of which exactly the last 90 are
\* feature-complete; predict_daily_admissions(7) returns exactly 7 forecast
\* points; predict_busy_periods(75) yields threshold 20 and busy_day_count 60.
C15_AlternatingScenario ==
    /\ Len(daily_admissions) = 120
    /\ \A i \in 1 .. 120 :
           /\ daily_admissions[i].admission_date = FirstObserved + i - 1
           /\ daily_admissions[i].admission_count \in {10, 20}
           /\ i > 1 => daily_admissions[i].admission_count
                           # daily_admissions[i - 1].admission_count
    /\ Len(CleanRows) = 90
    /\ \A j \in 1 .. 90 : CleanRows[j] = daily_admissions[30 + j]
    /\ (CalledForecast /\ ret.arg = 7) =>
           /\ ForecastReturned
           /\ Len(ret.value.future_predictions) = 7
    /\ (CalledBusy /\ ret.arg = 75) =>
           /\ ret.status = "returned"
           /\ RatEq(ret.value.threshold, <<20, 1>>)
           /\ ret.value.busy_day_count = 60

\* the busy-period report at P = 75 of the scenario, forecast included
C15_ScenarioReportAt75 ==
    /\ BusyReturned
    /\ ret.arg = 75
    /\ Len(daily_admissions) = 120
    /\ ret.value.busy_day_count = 60
    /\ "predicted_busy_days" \in DOMAIN ret.value

---------------------------------------------------------------------------
(* C16: the predictor with fits that may raise *)

\* histories of 29 and of 30 feature-complete rows
FaultTables == {Table(n, <<1, 2>>, 0, FALSE) : n \in {59, 60}}

InitFitFailure ==
    \E tbl \in FaultTables :
        /\ data = tbl
        /\ daily_admissions = DailyAdmissionsOf(tbl)
        /\ registries = [models |-> {}, scalers |-> {}, encoders |-> {},
                         feature_importance |-> {}]
        /\ fitted = Unfitted
        /\ ret = NoCall

\* as FitChoices, every fit being free to raise
FaultyFitChoices ==
    IF fitted.known \/ InsufficientData(DropNa(daily_admissions))
    THEN {fitted.by} ELSE FaultyFits

FaultyPredictDailyAdmissions(days_ahead) ==
    \E fit \in FaultyFitChoices :
        Return("predict_daily_admissions", days_ahead, fit,
               PredictDailyAdmissions(daily_admissions, fit, days_ahead))

FaultyPredictBusyPeriods(threshold_percentile) ==
    \E fit \in FaultyFitChoices, empty_exc \in EmptyChoices :
        Return("predict_busy_periods", threshold_percentile, fit,
               PredictBusyPeriods(daily_admissions, fit, threshold_percentile, empty_exc))

NextFitFailure ==
    \/ \E days_ahead \in Horizons : FaultyPredictDailyAdmissions(days_ahead)
    \/ \E p \in Percentiles : FaultyPredictBusyPeriods(p)
    \/ CallAnalyzeCapacityRequirements

SpecFitFailure == InitFitFailure /\ [][NextFitFailure]_vars

\* the candidates whose fit raises in this history
FailedCandidates == {Candidates[k] : k \in FailedFits(fitted.by)}

\* C16: a fit failure is recovered per candidate.  When some but not all fits
\* raise, predict_daily_admissions returns a result in which every other
\* candidate is scored and best_model is one of them; it fails, with
\* ModelFitError, only when every fit raises.
C16_FitFailureRecovered ==
    (CalledForecast /\ fitted.known /\ FailedCandidates # {}) =>
        IF FailedCandidates = SeqRange(Candidates)
        THEN /\ ret.status = "raised"
             /\ ret.exc = "ModelFitError"
        ELSE /\ ForecastReturned
             /\ DOMAIN ret.value.model_metrics = SeqRange(Candidates) \ FailedCandidates
             /\ ret.value.best_model \notin FailedCandidates

\* the fit of the last candidate raised after the other two were fitted, and
\* the call ended in the library's exception without a result
C16_LastFailureAborts ==
    /\ CalledForecast
    /\ fitted.known
    /\ FailedCandidates = {"linear_regression"}
    /\ ret.status = "raised"
    /\ ret.exc = FitException
    /\ ret.trained = <<"random_forest", "gradient_boosting">>
    /\ ret.value = <<>>

---------------------------------------------------------------------------
(* C17 *)

\* C17: no predictor is built from an admission table that is empty or has no
\* row with a parseable admission timestamp (building it fails with
\* InsufficientDataError): every predictor that exists has a parseable
\* admission date in its table and a daily aggregate that is not empty.
C17_EmptyInputRejected ==
    /\ ParsedDates(data) # {}
    /\ Len(daily_admissions) > 0

\* a predictor was built from a table whose only rows are unparseable, and its
\* daily aggregate is empty
C17_EmptyAggregateBuilt ==
    /\ BagToSet(data) # {}
    /\ ParsedDates(data) = {}
    /\ daily_admissions = <<>>

---------------------------------------------------------------------------
(* C18 *)

\* C18: the threshold of a busy-period report is the P-th percentile of the
\* historical daily counts by linear interpolation between the two order
\* statistics around the index (n - 1) * P / 100; busy_day_count is the number
\* of historical rows whose admission_count is >= threshold, a row at the
\* threshold included; busy_day_percentage is 100 * busy_day_count / n.
C18_ThresholdIsInterpolatedPercentile ==
    BusyReturned =>
        LET xs  == Counts(daily_admissions)
            n   == Len(xs)
            t   == ret.value.threshold
            pos == (n - 1) * ret.arg
            lo  == KthSmallest(xs, pos \div 100)
            hi  == KthSmallest(xs, IF pos % 100 = 0 THEN pos \div 100
                                   ELSE pos \div 100 + 1)
        IN  /\ t[2] > 0
            /\ 100 * t[1] = t[2] * (100 * lo + (pos % 100) * (hi - lo))
            /\ ret.value.busy_day_count =
                   Cardinality({i \in 1 .. n : xs[i] * t[2] >= t[1]})
            /\ ret.value.busy_day_percentage[2] > 0
            /\ ret.value.busy_day_percentage[1] * n
                   = 100 * ret.value.busy_day_count * ret.value.busy_day_percentage[2]

\* a report in which some day's count equals the threshold and not every day
\* is busy
C18_DayAtThresholdIsBusy ==
    /\ BusyReturned
    /\ ret.value.busy_day_count < Len(daily_admissions)
    /\ \E i \in 1 .. Len(daily_admissions) :
           daily_admissions[i].admission_count * ret.value.threshold[2]
               = ret.value.threshold[1]

---------------------------------------------------------------------------
(* C19 *)

\* the number of events of a table that have no parseable admission timestamp
DroppedEvents(tbl) ==
    BagCardinality(tbl)
        - BagCardinality([c \in {x \in BagToSet(tbl) : ToDatetime(x) # <<>>} |-> tbl[c]])

\* C19: the number of events dropped for an unparseable admission timestamp is
\* observable in what the predictor built: every table that gives the daily
\* aggregate the predictor holds has as many unparseable events as the
\* predictor's own table.
C19_DropCountObservable ==
    \A tbl \in Tables :
        DailyAdmissionsOf(tbl) = daily_admissions =>
            DroppedEvents(tbl) = DroppedEvents(data)

\* a predictor built from a table with unparseable events: they are in no row
\* of the daily aggregate, which is the one the table without them gives
C19_UnparseableRowsAbsorbed ==
    /\ DroppedEvents(data) > 0
    /\ Len(daily_admissions) > 0
    /\ SumSeq(Counts(daily_admissions)) = BagCardinality(data) - DroppedEvents(data)
    /\ \E tbl \in Tables :
           /\ DroppedEvents(tbl) = 0
           /\ DailyAdmissionsOf(tbl) = daily_admissions

---------------------------------------------------------------------------
(* C20 *)

\* all lag fields (offsets 1, 3, 7, 14, 30) and all rolling-mean fields
\* (windows 3, 7, 14, 30) of the row are defined
FeatureComplete(row) ==
    /\ \A k \in {1, 3, 7, 14, 30} : row[LagCol(k)] # <<>>
    /\ \A w \in {3, 7, 14, 30} : row[RollingCol(w)] # <<>>

\* C20: a row of the daily aggregate is among the training and held-out rows
\* iff it is feature-complete, and it is feature-complete iff it is not one of
\* the first 30 rows.
C20_OnlyFeatureCompleteRowsUsed ==
    ret.trained # <<>> =>
        \A i \in 1 .. Len(daily_admissions) :
            /\ (daily_admissions[i].admission_date
                    \in SeqRange(ret.train_dates) \cup SeqRange(ret.test_dates))
                   <=> FeatureComplete(daily_admissions[i])
            /\ FeatureComplete(daily_admissions[i]) <=> i > 30

\* a history of 60 rows was trained and scored on its rows 31 to 60
C20_SecondHalfUsed ==
    /\ CalledForecast
    /\ ret.trained # <<>>
    /\ Len(daily_admissions) = 60
    /\ Len(ret.train_dates) + Len(ret.test_dates) = 30
    /\ ret.train_dates[1] = daily_admissions[31].admission_date

---------------------------------------------------------------------------
(* C21 *)

\* the names of the lag and rolling-mean columns
LagAndRollingCols ==
    {LagCol(k) : k \in {1, 3, 7, 14, 30}} \cup {RollingCol(w) : w \in {3, 7, 14, 30}}

\* the sum of the last 30 counts of the daily aggregate
TrailingSum == SumRange(Counts(daily_admissions),
                        Len(daily_admissions) - 29, Len(daily_admissions))

\* C21: in every forecast, every lag and rolling-mean input of every future
\* date is the mean of the trailing 30 observed daily counts: the same value
\* for all points of the horizon, whatever was predicted for earlier dates.
C21_LagInputsAreTrailingMean ==
    \A k \in 1 .. Len(ret.points) :
        \A j \in 1 .. Len(FeatureCols) :
            FeatureCols[j] \in LagAndRollingCols =>
                /\ Len(ret.points[k].x_pred[j]) = 2
                /\ ret.points[k].x_pred[j][2] > 0
                /\ ret.points[k].x_pred[j][1] * 30
                       = TrailingSum * ret.points[k].x_pred[j][2]

\* a forecast of two dates with different predictions, the lag input of the
\* second being the observed mean and not the first prediction
C21_SecondPointIgnoresFirst ==
    /\ ForecastReturned
    /\ Len(ret.points) >= 2
    /\ ret.points[1].predicted_admissions # ret.points[2].predicted_admissions
    /\ ret.points[2].x_pred[7] = ret.points[1].x_pred[7]
    /\ ~RatEq(ret.points[2].x_pred[7], <<ret.points[1].predicted_admissions, 1>>)

---------------------------------------------------------------------------
(* C22 *)

\* the row that training-time construction (_add_temporal_features) builds
\* for the date z
TrainingRowOf(z) ==
    AddTemporalFeatures(<<[admission_date |-> z, admission_count |-> 0]>>)[1]

\* C22: the vector given to the model for a future date has the fields of the
\* training vectors in the same positions: as many positions as the training
\* frame has columns, each calendar position holding what training-time
\* construction gives that column for the date, each lag or rolling position
\* holding a mean.
C22_SameFieldsSamePositions ==
    \A k \in 1 .. Len(ret.points) :
        /\ Len(ret.points[k].x_pred) = Len(FeatureCols)
        /\ DayNamed(ret.points[k].date) # <<>>
        /\ \A j \in 1 .. Len(FeatureCols) :
               IF FeatureCols[j] \in LagAndRollingCols
               THEN ret.points[k].x_pred[j] = ret.points[k].x_pred[Len(FeatureCols)]
               ELSE ret.points[k].x_pred[j] =
                        TrainingRowOf(DayNamed(ret.points[k].date)[1])[FeatureCols[j]]

\* a forecast point whose month and day of week differ, each in the position
\* the training frame has it
C22_MonthAndWeekdayInPlace ==
    /\ ForecastReturned
    /\ \E k \in 1 .. Len(ret.points) :
           /\ ret.points[k].x_pred[1] # ret.points[k].x_pred[2]
           /\ ret.points[k].x_pred[1]
                  = TrainingRowOf(DayNamed(ret.points[k].date)[1]).month
           /\ ret.points[k].x_pred[2]
                  = TrainingRowOf(DayNamed(ret.points[k].date)[1]).day_of_week

---------------------------------------------------------------------------
(* C23 *)

\* C23 (as the code has it): the model input consists of the calendar fields
\* month, day_of_week, day_of_year, week_of_year, is_weekend and season, the
\* lag fields of offsets 1, 3 and 7 and the rolling means of windows 3 and 7,
\* each once; the lag fields of offsets 14 and 30 and the rolling means of
\* windows 14 and 30 are no model input, nor is the target admission_count.
C23_FeatureFields ==
    ret.trained # <<>> =>
        /\ SeqRange(FeatureCols) =
               {"month", "day_of_week", "day_of_year", "week_of_year",
                "is_weekend", "season"}
               \cup {LagCol(k) : k \in {1, 3, 7}} \cup {RollingCol(w) : w \in {3, 7}}
        /\ Cardinality(SeqRange(FeatureCols)) = Len(FeatureCols)
        /\ "admission_count" \notin SeqRange(FeatureCols)
        /\ \A k \in 1 .. Len(ret.points) : Len(ret.points[k].x_pred) = 11

\* C23 (as stated): the model input consists of the calendar fields together
\* with all lag fields (offsets 1, 3, 7, 14, 30) and all rolling-mean fields
\* (windows 3, 7, 14, 30), and never contains the target admission_count.
C23_AllLagAndRollingFields ==
    ret.trained # <<>> =>
        /\ LagAndRollingCols \subseteq SeqRange(FeatureCols)
        /\ "admission_count" \notin SeqRange(FeatureCols)

\* the candidates were trained and a future date was given to the model as a
\* vector of 11 values, fewer than the 15 calendar, lag and rolling fields
C23_ElevenInputs ==
    /\ ForecastReturned
    /\ ret.trained = Candidates
    /\ Len(ret.points) >= 1
    /\ Len(ret.points[1].x_pred) = 11
    /\ Cardinality(LagAndRollingCols \ SeqRange(FeatureCols)) = 4

---------------------------------------------------------------------------
(* C24 *)

\* the peak metrics and the percentile ranks they are computed for
PeakRanks ==
    [percentile_95 |-> 95, percentile_90 |-> 90, percentile_75 |-> 75]

\* n is an integer nearest to the rational x
IsNearestInteger(n, x) ==
    2 * Abs(n * x[2] - x[1]) <= x[2]

\* C24: each peak metric returned by analyze_capacity_requirements is the
\* corresponding statistic of the daily counts rounded to the nearest integer:
\* max_daily_admissions the maximum, percentile_95, percentile_90 and
\* percentile_75 the interpolated percentiles.
C24_PeakMetricsRoundedToNearest ==
    (CalledCapacity /\ ret.status = "returned") =>
        /\ ret.value.peak_requirements.max_daily_admissions
               = SeqMax(Counts(daily_admissions))
        /\ \A m \in DOMAIN PeakRanks :
               IsNearestInteger(ret.value.peak_requirements[m],
                                NpPercentile(Counts(daily_admissions), PeakRanks[m]))

\* a report whose percentile_75 is the integer below a 75th percentile that
\* lies nearer to the integer above
C24_PercentileTruncated ==
    /\ CalledCapacity
    /\ ret.status = "returned"
    /\ LET q == NpPercentile(Counts(daily_admissions), 75)
       IN  /\ ret.value.peak_requirements.percentile_75 = q[1] \div q[2]
           /\ 2 * (q[1] % q[2]) > q[2]

---------------------------------------------------------------------------
(* C25 *)

\* the positions of the forecast points at or above the threshold
BusyPositions ==
    {k \in 1 .. Len(ret.points) :
        ret.points[k].predicted_admissions * ret.value.threshold[2]
            >= ret.value.threshold[1]}

\* the i-th smallest member of a set of positions
NthPosition(ps, i) ==
    CHOOSE k \in ps : Cardinality({j \in ps : j <= k}) = i

\* C25: when a forecast is available, predict_busy_periods classifies a
\* forecast of exactly 90 days against the threshold used for the history:
\* future_busy_periods is the sub-sequence of the 90 forecast points with
\* predicted_admissions >= threshold, in date order, and predicted_busy_days
\* is its length, between 0 and 90.
C25_FutureBusyIsFilteredNinetyDays ==
    (BusyReturned /\ "future_busy_periods" \in DOMAIN ret.value) =>
        /\ Len(ret.points) = 90
        /\ ret.value.threshold
               = NpPercentile(Counts(daily_admissions), ret.arg)
        /\ Len(ret.value.future_busy_periods) = Cardinality(BusyPositions)
        /\ \A i \in 1 .. Len(ret.value.future_busy_periods) :
               ret.value.future_busy_periods[i] =
                   [date |-> ret.points[NthPosition(BusyPositions, i)].date,
                    predicted_admissions |->
                        ret.points[NthPosition(BusyPositions, i)].predicted_admissions]
        /\ ret.value.predicted_busy_days = Len(ret.value.future_busy_periods)
        /\ ret.value.predicted_busy_days \in 0 .. 90

\* a report after an earlier forecast was trained, in which some but not all
\* of the 90 forecast days are busy
C25_SomeForecastDaysBusy ==
    /\ BusyReturned
    /\ "future_busy_periods" \in DOMAIN ret.value
    /\ ret.value.predicted_busy_days > 0
    /\ ret.value.predicted_busy_days < 90

---------------------------------------------------------------------------
(* C26 *)

\* what the last call returns when it is made on a predictor that holds the
\* daily aggregate df and whose seeds give the fits fit, whatever was called
\* before
ResultOf(df, fit) ==
    [op |-> ret.op, arg |-> ret.arg] @@
    (IF CalledForecast THEN PredictDailyAdmissions(df, fit, ret.arg)
     ELSE IF CalledBusy THEN PredictBusyPeriods(df, fit, ret.arg, ret.exc)
     ELSE IF CalledCapacity THEN AnalyzeCapacityRequirements(df)
     ELSE Raised(""))

\* the result of the last call is a function of the history, the seeds and
\* the argument, and a call that trains fits every candidate
IndependentOfEarlierCalls ==
    /\ ret = ResultOf(daily_admissions, fitted.by)
    /\ (ret.status = "returned" /\ (CalledForecast \/ CalledBusy)
            /\ Len(CleanRows) >= 30) => ret.trained = Candidates

\* a call changes neither the table, the daily aggregate nor a registry, and
\* fits that are fixed stay as they are
CallsShareNoState ==
    /\ data' = data
    /\ daily_admissions' = daily_admissions
    /\ registries' = registries
    /\ \A r \in DOMAIN registries : registries'[r] = {}
    /\ fitted.known => fitted' = fitted

\* C26: the public operations share no mutable state: every call leaves the
\* daily aggregate and the models, scalers, encoders and feature_importance
\* registries unchanged, every forecast call trains all its candidates, and the
\* result of a call is the one the history and the argument determine, whatever
\* calls were made before it.
C26_NoSharedMutableState ==
    []IndependentOfEarlierCalls /\ [][CallsShareNoState]_vars

\* a call that trained its candidates and left every registry empty
C26_TrainedNothingRegistered ==
    /\ BusyReturned
    /\ fitted.known
    /\ ret.trained = Candidates
    /\ \A r \in DOMAIN registries : registries[r] = {}

---------------------------------------------------------------------------
(* C27 *)

\* C27: for every non-empty history, one whose days all have the same count
\* included, and every percentile in (0, 100], predict_busy_periods returns a
\* report with min count <= threshold <= max count, busy_day_count >= 1 and
\* 0 < busy_day_percentage <= 100.
C27_ReportWellDefined ==
    (CalledBusy /\ ret.arg > 0 /\ ret.arg <= 100 /\ Len(daily_admissions) > 0) =>
        /\ ret.status = "returned"
        /\ SeqMin(Counts(daily_admissions)) * ret.value.threshold[2]
               <= ret.value.threshold[1]
        /\ ret.value.threshold[1]
               <= SeqMax(Counts(daily_admissions)) * ret.value.threshold[2]
        /\ ret.value.busy_day_count >= 1
        /\ ret.value.busy_day_percentage[1] > 0
        /\ ret.value.busy_day_percentage[1] <= 100 * ret.value.busy_day_percentage[2]

\* a report on a history whose days all have the same count: every day is at
\* the threshold and busy
C27_AllDaysEqual ==
    /\ BusyReturned
    /\ ret.arg > 0
    /\ Len(daily_admissions) >= 2
    /\ SeqMin(Counts(daily_admissions)) = SeqMax(Counts(daily_admissions))
    /\ ret.value.busy_day_count = Len(daily_admissions)
    /\ RatEq(ret.value.busy_day_percentage, <<100, 1>>)

---------------------------------------------------------------------------
(* C28 *)

\* the horizons a returned forecast is compared with: the longest one
\* requested directly and the one predict_busy_periods requests
LongerHorizons == {MaxHorizon, BusyHorizon}

\* the forecast predict_daily_admissions(n) returns on this predictor
ForecastFor(n) ==
    PredictDailyAdmissions(daily_admissions, fitted.by, n).value.future_predictions

\* C28: forecasts are prefix-consistent across horizons: on one predictor, for
\* all horizons 1 <= m <= n, the forecast predict_daily_admissions(m) returns
\* is the first m points, dates and predicted counts, of the forecast
\* predict_daily_admissions(n) returns.
C28_ForecastIsPrefixOfLonger ==
    (ForecastReturned /\ ret.arg >= 1) =>
        \A n \in LongerHorizons :
            ret.arg <= n =>
                /\ Len(ret.value.future_predictions) = ret.arg
                /\ Len(ForecastFor(n)) = n
                /\ \A i \in 1 .. ret.arg :
                       ret.value.future_predictions[i] = ForecastFor(n)[i]

\* a forecast of one day on a predictor whose forecast of 90 days has a
\* different count on its second day
C28_ShorterThanLongest ==
    /\ ForecastReturned
    /\ ret.arg = 1
    /\ ret.value.future_predictions[1] = ForecastFor(BusyHorizon)[1]
    /\ ForecastFor(BusyHorizon)[2].predicted_admissions
           # ret.value.future_predictions[1].predicted_admissions

---------------------------------------------------------------------------
(* C29 *)

\* the number of rows of the table whose admission timestamp parsed
ParsedEvents(tbl) == BagCardinality(tbl) - DroppedEvents(tbl)

\* C29: the daily aggregate conserves events: its rows have pairwise distinct
\* dates in strictly increasing order, and the sum of admission_count over all
\* rows is the number of input events whose admission timestamp parsed; an
\* event with an unparseable timestamp is in no row.
C29_AggregateConservesEvents ==
    /\ \A i \in 1 .. Len(daily_admissions) - 1 :
           daily_admissions[i].admission_date < daily_admissions[i + 1].admission_date
    /\ \A i \in 1 .. Len(daily_admissions) :
           daily_admissions[i].admission_date \in ParsedDates(data)
    /\ SumSeq(Counts(daily_admissions)) = ParsedEvents(data)

\* a table with an unparseable event and a day of two events: the aggregate
\* counts every event but the unparseable one
C29_TwoEventsOneDayOneDropped ==
    /\ DroppedEvents(data) > 0
    /\ \E i \in 1 .. Len(daily_admissions) : daily_admissions[i].admission_count = 2
    /\ SumSeq(Counts(daily_admissions)) = BagCardinality(data) - DroppedEvents(data)
    /\ SumSeq(Counts(daily_admissions)) > Len(daily_admissions)

---------------------------------------------------------------------------
(* C30 *)

\* the keys of a full forecast result
ForecastKeys ==
    {"best_model", "model_metrics", "future_predictions", "feature_importance"}

\* C30: every value predict_daily_admissions returns has exactly one of two
\* shapes: only the key 'error', or all of best_model, model_metrics,
\* future_predictions and feature_importance and no 'error'; in the second
\* shape best_model is a key of model_metrics and model_metrics has one entry
\* per candidate.
C30_ErrorOrFullResult ==
    (CalledForecast /\ ret.status = "returned") =>
        \/ DOMAIN ret.value = {"error"}
        \/ /\ DOMAIN ret.value = ForecastKeys
           /\ ret.value.best_model \in DOMAIN ret.value.model_metrics
           /\ DOMAIN ret.value.model_metrics = SeqRange(Candidates)

\* a full result whose best model is not the first candidate
C30_FullResultLaterCandidate ==
    /\ ForecastReturned
    /\ "error" \notin DOMAIN ret.value
    /\ ret.value.best_model \in DOMAIN ret.value.model_metrics
    /\ ret.value.best_model # Candidates[1]

==========================================================================
